---- MODULE Spec2Model ----
(***************************************************************************)
(* A model of taskinator-communicator (src/src/game.rs): Game::from_pid    *)
(* (connect) and Game::state (poll) reading a foreign process's memory.    *)
(*                                                                         *)
(* The foreign memory is a partial function from byte addresses to bytes;  *)
(* the functions of game.rs are operators that return the SET of results   *)
(* a call can have (a result is Ok, Err or Abort, and carries the log of   *)
(* the foreign reads the call issued).  A set with several members is the  *)
(* place of nondeterminism: the operating system's answer to a read that   *)
(* crosses into unmapped memory, the content of uninitialised buffer       *)
(* bytes, and the undefined behaviour of an enum holding no variant.       *)
(* All addresses of the modelled images stay below 2^31, so no u32 sum of  *)
(* the code wraps.                                                         *)
(***************************************************************************)
EXTENDS Integers, Sequences, FiniteSets, TLC

VARIABLES
    foreign,    \* the foreign process's state; its memory is Image(foreign)
    game,       \* the Game polled: [handle, ga_addr]
    result,     \* what Game::state returned, polled since the memory last changed
    reads,      \* the foreign reads that call issued, in order
    modules,    \* the target process's module list: [n, names]
    handles,    \* open process handles (a set of handle ids)
    games,      \* live Game values (a set of [handle, ga_addr])
    connected,  \* what the most recent Game::from_pid call returned
    nopens      \* Game::from_pid calls so far

pollVars == << foreign, game, result, reads >>
connVars == << modules, handles, games, connected, nopens >>
vars == << foreign, game, result, reads, modules, handles, games, connected, nopens >>

(***************************************************************************)
(* Bounds of the model.                                                    *)
(***************************************************************************)
MaxCount == 2        \* largest foreign player-list count of an image
MaxOpens == 3        \* Game::from_pid calls of one behaviour
MaxExtraModules == 2 \* modules beyond MAX_MODULE_COUNT in the longest list

(***************************************************************************)
(* Constants of game.rs.                                                   *)
(***************************************************************************)
GameUSizeBytes == 4
INTERNAL_STATE_OFFSET == \H70
PLAYER_LIST_PTR_OFFSET == \H24
PLAYER_LIST_SIZE_OFFSET == \HC
PLAYER_LIST_FIRST_OBJECT == \H8
PLAYER_ARRAY_OFFSET == \H10
PLAYER_STRUCT_SIZE == \H2C
PLAYER_HEADER_SKIP == 8
TASKS_OFFSET == \H28
MEETING_STATE_OFFSET == \H84
STRING_LEN_OFFSET == \H08
STRING_DATA_OFFSET == 12
STATICS_OFFSET == \H5C
INSTANCE_OFFSET == \H00
MAX_MODULE_COUNT == 128
TargetName == "GameAssembly.dll"

Classes == {"ClientState", "PlayerManager", "MeetingScreen"}

CLASS_OFFSET(T) ==
    CASE T = "ClientState" -> \H028E98F4
      [] T = "PlayerManager" -> \H0290551C
      [] T = "MeetingScreen" -> \H028E25A8

InternalStateNames == <<"NotJoined", "Joined", "Started", "Ended">>
MeetingStateNames == <<"Discussion", "NotVoted", "Voted", "Results", "Proceeding">>

(***************************************************************************)
(* Error values (error.rs) and call results.                               *)
(***************************************************************************)
ReadError(code, count, label) ==
    [kind |-> "ReadError", code |-> code, count |-> count, label |-> label]

EnumModuleError(code) == [kind |-> "EnumModuleError", code |-> code]

MissingGaError == [kind |-> "MissingGaError"]

FromUtf16Error == [kind |-> "FromUtf16Error"]

Ok(v, log) == [tag |-> "Ok", val |-> v, log |-> log]

Err(e, log) == [tag |-> "Err", err |-> e, log |-> log]

Abort(log) == [tag |-> "Abort", log |-> log]

\* The `?` operator: on Ok the rest F runs on the value, anything else is
\* returned as it is; the reads of both parts are logged in order.
AndThen(S, F(_)) ==
    UNION { IF r.tag = "Ok"
              THEN { [r2 EXCEPT !.log = r.log \o r2.log] : r2 \in F(r.val) }
              ELSE { r } : r \in S }

(***************************************************************************)
(* Bytes.                                                                  *)
(***************************************************************************)
Le32(v) == << v % 256, (v \div 256) % 256, (v \div 65536) % 256, v \div 16777216 >>

FromLe32(b) == b[1] + 256 * b[2] + 65536 * b[3] + 16777216 * b[4]

FromLeI32(b) ==
    IF b[4] >= 128
      THEN b[1] + 256 * b[2] + 65536 * b[3] + 16777216 * (b[4] - 256)
      ELSE FromLe32(b)

FromLe16(b) == b[1] + 256 * b[2]

\* What the n uninitialised bytes of a host buffer may hold: the model takes
\* the buffers filled with one byte value, of two values.
GarbageByte == {0, 1}

Uninit(n) == { [i \in 1..n |-> g] : g \in GarbageByte }

(***************************************************************************)
(* ReadProcessMemory.  The foreign memory m is a set of disjoint mapped    *)
(* segments [addr, bytes].  The bytes of [address, address+len) are copied *)
(* up to the first unmapped one.  A full copy succeeds.  A copy that stops *)
(* short is reported with the number of bytes copied, either as a failure  *)
(* (return value 0) or with a nonzero return value: the callers at lines   *)
(* 254 and 375 test the byte count besides the return value.               *)
(***************************************************************************)
ERROR_PARTIAL_COPY == 299

InSegment(c, a) == a >= c.addr /\ a < c.addr + Len(c.bytes)

RECURSIVE Copied(_, _, _)
Copied(m, address, len) ==
    IF len = 0 \/ ~ \E c \in m : InSegment(c, address)
      THEN << >>
      ELSE LET c == CHOOSE c \in m : InSegment(c, address)
               from == address - c.addr + 1
               n == IF len < Len(c.bytes) - from + 1 THEN len ELSE Len(c.bytes) - from + 1
           IN  SubSeq(c.bytes, from, from + n - 1) \o Copied(m, address + n, len - n)

ReadProcessMemory(m, address, len) ==
    LET got == Copied(m, address, len)
    IN  IF Len(got) = len
          THEN { [ret |-> 1, count |-> len, bytes |-> got, lasterr |-> 0] }
          ELSE { [ret |-> 0, count |-> Len(got), bytes |-> got,
                  lasterr |-> ERROR_PARTIAL_COPY] }
               \cup
               IF Len(got) > 0
                 THEN { [ret |-> 1, count |-> Len(got), bytes |-> got, lasterr |-> 0] }
                 ELSE { }

\* The content of a len-byte host buffer after the read o wrote into it:
\* the bytes copied, then whatever the uninitialised rest holds.
Buffer(o, len) == { o.bytes \o pad : pad \in Uninit(len - o.count) }

\* The log entry of one foreign read: what was asked, and the answer o.
Rd(address, len, label, o) ==
    << [addr |-> address, len |-> len, label |-> label,
       ret |-> o.ret, count |-> o.count, lasterr |-> o.lasterr] >>

(***************************************************************************)
(* The readers of game.rs.  self is the Game, m the foreign memory.        *)
(***************************************************************************)
read_game_usize(self, m, address) ==
    UNION { IF o.ret = 0
              THEN { Err(ReadError(o.lasterr, o.count, "pointer"),
                         Rd(address, GameUSizeBytes, "pointer", o)) }
              ELSE { Ok(FromLe32(b), Rd(address, GameUSizeBytes, "pointer", o))
                       : b \in Buffer(o, GameUSizeBytes) }
            : o \in ReadProcessMemory(m, address, GameUSizeBytes) }

get_instance_addr(self, m, T) ==
    AndThen(read_game_usize(self, m, self.ga_addr + CLASS_OFFSET(T)),
      LAMBDA class_addr :
    AndThen(read_game_usize(self, m, class_addr + STATICS_OFFSET),
      LAMBDA statics_addr :
    read_game_usize(self, m, statics_addr + INSTANCE_OFFSET)))

\* MaybeUninit::<E>::assume_init() on the discriminant raw of an enum with
\* the variants names: a discriminant of no variant is undefined behaviour,
\* after which the caller may run as if any variant had been read, or die.
AssumeInitEnum(raw, names, log) ==
    IF raw \in 0..(Len(names) - 1)
      THEN { Ok(names[raw + 1], log) }
      ELSE { Ok(names[i], log) : i \in 1..Len(names) } \cup { Abort(log) }

read_internal_state(self, m, client_state_addr) ==
    LET address == client_state_addr + INTERNAL_STATE_OFFSET
        log(o) == Rd(address, GameUSizeBytes, "internal state", o)
    IN  UNION { IF o.ret = 0
                  THEN { Err(ReadError(o.lasterr, o.count, "internal state"), log(o)) }
                  ELSE UNION { AssumeInitEnum(FromLe32(b), InternalStateNames, log(o))
                               : b \in Buffer(o, GameUSizeBytes) }
                : o \in ReadProcessMemory(m, address, GameUSizeBytes) }

read_meeting_progress(self, m, meeting_screen_addr) ==
    LET address == meeting_screen_addr + MEETING_STATE_OFFSET
        log(o) == Rd(address, GameUSizeBytes, "meeting state", o)
    IN  UNION { IF o.ret = 0
                  THEN { Err(ReadError(o.lasterr, o.count, "meeting state"), log(o)) }
                  ELSE UNION { AssumeInitEnum(FromLe32(b), MeetingStateNames, log(o))
                               : b \in Buffer(o, GameUSizeBytes) }
                : o \in ReadProcessMemory(m, address, GameUSizeBytes) }

read_task_overview(self, m, player_manager_addr) ==
    LET address == player_manager_addr + TASKS_OFFSET
        log(o) == Rd(address, 2 * GameUSizeBytes, "task overview", o)
    IN  UNION { IF o.ret = 0
                  THEN { Err(ReadError(o.lasterr, o.count, "task overview"), log(o)) }
                  ELSE { Ok(<< FromLe32(SubSeq(b, 1, 4)), FromLe32(SubSeq(b, 5, 8)) >>, log(o))
                           : b \in Buffer(o, 2 * GameUSizeBytes) }
                : o \in ReadProcessMemory(m, address, 2 * GameUSizeBytes) }

\* String::from_utf16: a surrogate pair is one character, a surrogate
\* without its partner is an error.
RECURSIVE from_utf16(_)
from_utf16(u) ==
    IF u = << >> THEN [ok |-> TRUE, s |-> << >>]
    ELSE IF u[1] < 55296 \/ u[1] > 57343
      THEN LET rest == from_utf16(Tail(u))
           IN  [ok |-> rest.ok, s |-> << u[1] >> \o rest.s]
    ELSE IF u[1] <= 56319 /\ Len(u) >= 2 /\ u[2] >= 56320 /\ u[2] <= 57343
      THEN LET rest == from_utf16(Tail(Tail(u)))
           IN  [ok |-> rest.ok,
                s |-> << 65536 + (u[1] - 55296) * 1024 + (u[2] - 56320) >> \o rest.s]
    ELSE [ok |-> FALSE, s |-> << >>]

Units(b) == [i \in 1..(Len(b) \div 2) |-> FromLe16(SubSeq(b, 2 * i - 1, 2 * i))]

read_string(self, m, address) ==
    AndThen(read_game_usize(self, m, address + STRING_LEN_OFFSET),
      LAMBDA str_len :
        LET log(o) == Rd(address + STRING_DATA_OFFSET, str_len * 2, "string", o)
        IN  { IF o.ret = 0 \/ o.count \div 2 # str_len
                THEN Err(ReadError(o.lasterr, o.count, "string"), log(o))
                ELSE LET text == from_utf16(Units(SubSeq(o.bytes, 1, str_len * 2)))
                     IN  IF text.ok THEN Ok(text.s, log(o)) ELSE Err(FromUtf16Error, log(o))
              : o \in ReadProcessMemory(m, address + STRING_DATA_OFFSET, str_len * 2) })

read_player(self, m, player_addr) ==
    LET address == player_addr + PLAYER_HEADER_SKIP
        log(o) == Rd(address, PLAYER_STRUCT_SIZE, "raw player", o)
    IN  UNION { IF o.ret = 0 \/ o.count # PLAYER_STRUCT_SIZE
                  THEN { Err(ReadError(o.lasterr, o.count, "raw player"), log(o)) }
                  ELSE LET raw_bytes == o.bytes
                           name_addr == FromLe32(SubSeq(raw_bytes, 5, 8))
                       IN  AndThen({ Ok(name_addr, log(o)) },
                             LAMBDA a :
                           AndThen(read_string(self, m, a),
                             LAMBDA name :
                               { Ok([id |-> raw_bytes[1],
                                     name |-> name,
                                     colour |-> FromLeI32(SubSeq(raw_bytes, 13, 16)),
                                     hat |-> FromLe32(SubSeq(raw_bytes, 17, 20)),
                                     pet |-> FromLe32(SubSeq(raw_bytes, 21, 24)),
                                     skin |-> FromLe32(SubSeq(raw_bytes, 25, 28)),
                                     disconnected |-> raw_bytes[29] # 0,
                                     tasks_addr |-> FromLe32(SubSeq(raw_bytes, 33, 36)),
                                     impostor |-> raw_bytes[37] # 0,
                                     dead |-> raw_bytes[38] # 0,
                                     game_object_addr |-> FromLe32(SubSeq(raw_bytes, 41, 44))],
                                    << >>) }))
                : o \in ReadProcessMemory(m, address, PLAYER_STRUCT_SIZE) }

\* A best-effort loop, for comparison: a player whose read fails is left out.
RECURSIVE read_players_loop_skip(_, _, _, _, _, _)
read_players_loop_skip(self, m, first_player_addr, idx, player_count, players) ==
    IF idx >= player_count
      THEN { Ok(players, << >>) }
      ELSE AndThen(read_game_usize(self, m, first_player_addr + idx * GameUSizeBytes),
             LAMBDA player_addr :
               UNION { { [r2 EXCEPT !.log = r.log \o r2.log]
                         : r2 \in read_players_loop_skip(self, m, first_player_addr, idx + 1,
                                     player_count,
                                     IF r.tag = "Ok" THEN Append(players, r.val) ELSE players) }
                       : r \in read_player(self, m, player_addr) })

\* The loop of read_players from index idx on, players being those pushed so far.
RECURSIVE read_players_loop(_, _, _, _, _, _)
read_players_loop(self, m, first_player_addr, idx, player_count, players) ==
    IF idx >= player_count
      THEN { Ok(players, << >>) }
      ELSE AndThen(read_game_usize(self, m, first_player_addr + idx * GameUSizeBytes),
             LAMBDA player_addr :
           AndThen(read_player(self, m, player_addr),
             LAMBDA player :
               read_players_loop(self, m, first_player_addr, idx + 1, player_count,
                                 Append(players, player))))

read_player_count(self, m, player_list_addr) ==
    LET address == player_list_addr + PLAYER_LIST_SIZE_OFFSET
        log(o) == Rd(address, GameUSizeBytes, "player list size", o)
    IN  UNION { IF o.ret = 0
                  THEN { Err(ReadError(o.lasterr, o.count, "player list size"), log(o)) }
                  ELSE { Ok(FromLe32(b), log(o)) : b \in Buffer(o, GameUSizeBytes) }
                : o \in ReadProcessMemory(m, address, GameUSizeBytes) }

read_players(self, m, player_manager_addr) ==
    AndThen(read_game_usize(self, m, player_manager_addr + PLAYER_LIST_PTR_OFFSET),
      LAMBDA player_list_addr :
    AndThen(read_player_count(self, m, player_list_addr),
      LAMBDA player_count :
    AndThen(read_game_usize(self, m, player_list_addr + PLAYER_LIST_FIRST_OBJECT),
      LAMBDA first_object :
        read_players_loop(self, m, first_object + PLAYER_ARRAY_OFFSET, 0,
                          player_count, << >>))))

(***************************************************************************)
(* Game::state.                                                            *)
(***************************************************************************)
Menu == [variant |-> "Menu"]

Lobby(players) == [variant |-> "Lobby", players |-> players]

InGame(meeting, players, tasks_completed, tasks_total) ==
    [variant |-> "InGame", meeting |-> meeting, players |-> players,
     tasks_completed |-> tasks_completed, tasks_total |-> tasks_total]

state_lobby(self, m) ==
    AndThen(get_instance_addr(self, m, "PlayerManager"),
      LAMBDA player_manager_addr :
    AndThen(read_players(self, m, player_manager_addr),
      LAMBDA players :
        { Ok(Lobby(players), << >>) }))

\* For comparison: the meeting phase read without the test for a null instance.
state_meeting_unchecked(self, m, meeting_screen_addr) ==
    read_meeting_progress(self, m, meeting_screen_addr)

state_meeting(self, m, meeting_screen_addr) ==
    IF meeting_screen_addr # 0
      THEN read_meeting_progress(self, m, meeting_screen_addr)
      ELSE { Ok("Proceeding", << >>) }

state_started(self, m) ==
    AndThen(get_instance_addr(self, m, "PlayerManager"),
      LAMBDA player_manager_addr :
    AndThen(read_task_overview(self, m, player_manager_addr),
      LAMBDA tasks :
    AndThen(read_players(self, m, player_manager_addr),
      LAMBDA players :
    AndThen(get_instance_addr(self, m, "MeetingScreen"),
      LAMBDA meeting_screen_addr :
    AndThen(state_meeting(self, m, meeting_screen_addr),
      LAMBDA meeting :
        { Ok(InGame(meeting, players, tasks[2], tasks[1]), << >>) })))))

\* For comparison: a match that takes Ended for the menu.
state_match_ended_menu(self, m, internal_state) ==
    CASE internal_state \in {"NotJoined", "Ended"} -> { Ok(Menu, << >>) }
      [] internal_state = "Joined" -> state_lobby(self, m)
      [] internal_state = "Started" -> state_started(self, m)

state_match(self, m, internal_state) ==
    CASE internal_state = "NotJoined" -> { Ok(Menu, << >>) }
      [] internal_state \in {"Joined", "Ended"} -> state_lobby(self, m)
      [] internal_state = "Started" -> state_started(self, m)

state(self, m) ==
    AndThen(get_instance_addr(self, m, "ClientState"),
      LAMBDA client_state_addr :
    AndThen(read_internal_state(self, m, client_state_addr),
      LAMBDA internal_state :
        state_match(self, m, internal_state)))

(***************************************************************************)
(* Foreign memory images.  An image is laid out as the code's offsets      *)
(* expect it: per class a class pointer in the module, a statics pointer   *)
(* in the class, an instance pointer in the statics block; the client      *)
(* state with its phase, the player manager with its task counters and     *)
(* player list, the meeting screen with its phase.  A scenario chooses the *)
(* values of the cells and one fault.                                      *)
(***************************************************************************)
GA_BASE == \H10000000
CLASS_BASE == \H20000000
STATICS_BASE == \H21000000
CS_ADDR == \H30000000
PM_ADDR == \H31000000
MS_ADDR == \H32000000
LIST_ADDR == \H33000000
ARRAY_ADDR == \H34000000
PLAYER_BASE == \H35000000
STRING_BASE == \H36000000
OBJECT_BASE == \H37000000
OBJECT_STRIDE == \H100

ClassNo(T) == CASE T = "ClientState" -> 1 [] T = "PlayerManager" -> 2 [] T = "MeetingScreen" -> 3

ClassAddr(T) == CLASS_BASE + ClassNo(T) * OBJECT_STRIDE

StaticsAddr(T) == STATICS_BASE + ClassNo(T) * OBJECT_STRIDE

PlayerAddr(i) == PLAYER_BASE + i * OBJECT_STRIDE

StringAddr(i) == STRING_BASE + i * OBJECT_STRIDE

\* The UTF-16 code units of player i's name: "Red", "Blue", one character
\* outside the basic plane (a surrogate pair), then single letters.
NameUnits(i) ==
    CASE i = 0 -> << 82, 101, 100 >>
      [] i = 1 -> << 66, 108, 117, 101 >>
      [] i = 2 -> << 55357, 56832 >>
      [] OTHER -> << 65 + i >>

Le16(v) == << v % 256, v \div 256 >>

RECURSIVE UnitBytes(_)
UnitBytes(u) == IF u = << >> THEN << >> ELSE Le16(u[1]) \o UnitBytes(Tail(u))

Bool8(b) == IF b THEN 1 ELSE 0

\* The 44 bytes of player i's record after the object header (lines 260-271).
PlayerRecord(i) ==
    << i, 0, 0, 0 >> \o Le32(StringAddr(i)) \o << 0, 0, 0, 0 >>
    \o Le32(i) \o Le32(i + 10) \o Le32(i + 20) \o Le32(i + 30)
    \o << Bool8(i = 1), 0, 0, 0 >> \o Le32(0)
    \o << Bool8(i = 0), Bool8(i = 2), 0, 0 >> \o Le32(OBJECT_BASE + i * OBJECT_STRIDE)

\* What read_player decodes from player i of an intact image.
PlayerValue(i) ==
    [id |-> i, name |-> from_utf16(NameUnits(i)).s, colour |-> i, hat |-> i + 10,
     pet |-> i + 20, skin |-> i + 30, disconnected |-> (i = 1), tasks_addr |-> 0,
     impostor |-> (i = 0), dead |-> (i = 2),
     game_object_addr |-> OBJECT_BASE + i * OBJECT_STRIDE]

\* The task counters of every image: tasks_total, tasks_completed.
Tasks == << 10, 3 >>

Cell(name, k, addr, bytes) == [name |-> << name, k >>, addr |-> addr, bytes |-> bytes]

InstanceOf(s, T) ==
    CASE T = "ClientState" -> CS_ADDR
      [] T = "PlayerManager" -> PM_ADDR
      [] T = "MeetingScreen" -> s.ms

\* The fault << "surrogate", i, 0 >> makes player i's name a lone surrogate.
NameIn(s, i) == IF s.fault = << "surrogate", i, 0 >> THEN << 55296 >> ELSE NameUnits(i)

Cells(s) ==
    { Cell("class", ClassNo(T), GA_BASE + CLASS_OFFSET(T), Le32(ClassAddr(T))) : T \in Classes }
    \cup { Cell("statics", ClassNo(T), ClassAddr(T) + STATICS_OFFSET, Le32(StaticsAddr(T)))
           : T \in Classes }
    \cup { Cell("instance", ClassNo(T), StaticsAddr(T) + INSTANCE_OFFSET, Le32(InstanceOf(s, T)))
           : T \in Classes }
    \cup { Cell("phase", 0, CS_ADDR + INTERNAL_STATE_OFFSET, Le32(s.phase)),
           Cell("listptr", 0, PM_ADDR + PLAYER_LIST_PTR_OFFSET, Le32(LIST_ADDR)),
           Cell("tasks", 0, PM_ADDR + TASKS_OFFSET, Le32(Tasks[1]) \o Le32(Tasks[2])),
           Cell("arrptr", 0, LIST_ADDR + PLAYER_LIST_FIRST_OBJECT, Le32(ARRAY_ADDR)),
           Cell("count", 0, LIST_ADDR + PLAYER_LIST_SIZE_OFFSET, Le32(s.count)),
           Cell("mstate", 0, MS_ADDR + MEETING_STATE_OFFSET, Le32(s.mraw)) }
    \cup { Cell("elem", i, ARRAY_ADDR + PLAYER_ARRAY_OFFSET + i * GameUSizeBytes,
                Le32(PlayerAddr(i))) : i \in 0..(s.count - 1) }
    \cup { Cell("rec", i, PlayerAddr(i) + PLAYER_HEADER_SKIP, PlayerRecord(i))
           : i \in 0..(s.count - 1) }
    \cup { Cell("strlen", i, StringAddr(i) + STRING_LEN_OFFSET, Le32(Len(NameIn(s, i))))
           : i \in 0..(s.count - 1) }
    \cup { Cell("str", i, StringAddr(i) + STRING_DATA_OFFSET, UnitBytes(NameIn(s, i)))
           : i \in 0..(s.count - 1) }

\* The fault << name, k, n >> leaves only the first n bytes of cell << name, k >> mapped.
Faulted(s, c) ==
    IF << c.name[1], c.name[2] >> = << s.fault[1], s.fault[2] >> /\ s.fault[3] < Len(c.bytes)
      THEN [c EXCEPT !.bytes = SubSeq(c.bytes, 1, s.fault[3])]
      ELSE c

Image(s) ==
    { [addr |-> c.addr, bytes |-> c.bytes]
      : c \in { d \in { Faulted(s, e) : e \in Cells(s) } : d.bytes # << >> } }

NoFault == << "none", 0, 0 >>

MaxPhaseRaw == Len(InternalStateNames)
MaxMeetingRaw == Len(MeetingStateNames)

\* The cells a poll of scenario s visits, each cut at 0 bytes (the read
\* fails) and at 2 bytes (the read is short).
Faults(s) ==
    LET common == { << "class", 1 >>, << "statics", 1 >>, << "instance", 1 >>, << "phase", 0 >> }
        list == { << "class", 2 >>, << "statics", 2 >>, << "instance", 2 >>,
                  << "listptr", 0 >>, << "count", 0 >>, << "arrptr", 0 >> }
                \cup { << n, i >> : n \in {"elem", "rec", "strlen", "str"}, i \in 0..(s.count - 1) }
        meeting == { << "tasks", 0 >>, << "class", 3 >>, << "statics", 3 >>, << "instance", 3 >> }
                   \cup (IF s.ms = 0 THEN { } ELSE { << "mstate", 0 >> })
        names == common \cup (IF s.phase = 0 THEN { } ELSE list)
                        \cup (IF s.phase \in {0, 1, 3} THEN { } ELSE meeting)
    IN  { NoFault } \cup { << c[1], c[2], n >> : c \in names, n \in {0, 2} }
        \cup (IF s.phase = 0 THEN { } ELSE { << "surrogate", i, 0 >> : i \in 0..(s.count - 1) })

Shapes ==
    { [phase |-> p, count |-> c, ms |-> a, mraw |-> r, fault |-> NoFault]
      : p \in 0..MaxPhaseRaw, c \in 0..MaxCount, a \in {0, MS_ADDR}, r \in 0..MaxMeetingRaw }

Scenarios ==
    UNION { { [s EXCEPT !.fault = f] : f \in Faults(s) }
            : s \in { t \in Shapes : /\ (t.ms = 0 => t.mraw = 0)
                                     /\ (t.phase \in {0, 1, 3} => t.ms = 0)
                                     /\ (t.phase = 0 => t.count = 0) } }

(***************************************************************************)
(* The polling specification: a Game connected to the module at GA_BASE,   *)
(* polled while the foreign process runs.                                  *)
(***************************************************************************)
NoResult == [tag |-> "none"]

Returned(r) == IF r.tag = "Ok" THEN [tag |-> "Ok", val |-> r.val]
               ELSE IF r.tag = "Err" THEN [tag |-> "Err", err |-> r.err]
               ELSE [tag |-> r.tag]

ConnIdle ==
    /\ modules = [n |-> 1, names |-> [i \in {1} |-> TargetName]]
    /\ handles = {1}
    /\ games = {[handle |-> 1, ga_addr |-> GA_BASE]}
    /\ connected = NoResult
    /\ nopens = 1

Init ==
    /\ foreign \in Scenarios
    /\ game = [handle |-> 1, ga_addr |-> GA_BASE]
    /\ result = NoResult
    /\ reads = << >>
    /\ ConnIdle

\* One call of Game::state.
Poll ==
    /\ \E r \in state(game, Image(foreign)) :
         /\ result' = Returned(r)
         /\ reads' = r.log
    /\ UNCHANGED << foreign, game >>
    /\ UNCHANGED connVars

\* The foreign process changes one thing: its phase, its player count, its
\* meeting screen, or what of its memory is mapped.
Changed(s) ==
    ({ [s EXCEPT !.phase = p] : p \in 0..MaxPhaseRaw }
     \cup { [s EXCEPT !.count = c] : c \in 0..MaxCount }
     \cup { [s EXCEPT !.ms = a, !.mraw = r] : a \in {0, MS_ADDR}, r \in 0..MaxMeetingRaw }
     \cup (IF s.fault = NoFault
             THEN { [s EXCEPT !.fault = f] : f \in Faults(s) }
             ELSE { [s EXCEPT !.fault = NoFault] }))
    \cap (Scenarios \ { s })

ForeignWrite ==
    /\ foreign' \in Changed(foreign)
    /\ result' = NoResult
    /\ reads' = << >>
    /\ UNCHANGED game
    /\ UNCHANGED connVars

Next == Poll \/ ForeignWrite

Spec == Init /\ [][Next]_vars

(***************************************************************************)
(* Game::from_pid.  The target process has modules.n modules; module i has *)
(* the handle HModule(i) and the base name NameOfModule(modules, i).       *)
(***************************************************************************)
HMODULE_BASE == \H00400000
HMODULE_STRIDE == \H10000
INVALID_HMODULE == 0
ERROR_INVALID_HANDLE == 6

HModule(i) == HMODULE_BASE + i * HMODULE_STRIDE

NameOfModule(mods, i) == IF i \in DOMAIN mods.names THEN mods.names[i] ELSE "Among Us.exe"

\* GetModuleBaseNameW: the name of the module with handle hm, empty (length
\* 0) when hm is no module of the process.
GetModuleBaseNameW(mods, hm) ==
    LET i == (hm - HMODULE_BASE) \div HMODULE_STRIDE
    IN  IF i \in 1..mods.n /\ HModule(i) = hm THEN NameOfModule(mods, i) ELSE ""

\* EnumProcessModulesEx into a buffer of MAX_MODULE_COUNT handles: the
\* handles that fit are written, and the size needed for all of them is
\* reported.
EnumProcessModulesEx(mods) ==
    [written |-> [i \in 1..(IF mods.n < MAX_MODULE_COUNT THEN mods.n ELSE MAX_MODULE_COUNT)
                    |-> HModule(i)],
     count |-> mods.n]

\* modules.set_len(count): the entries beyond the buffer's capacity are read
\* out of bounds and hold whatever lies there, a handle of the process or not.
SetLen(mods, e) ==
    { e.written \o tail
      : tail \in { [i \in 1..(e.count - Len(e.written)) |-> g]
                   : g \in { INVALID_HMODULE } \cup { HModule(i) : i \in DOMAIN mods.names } } }

\* modules.into_iter().find_map(...): the first handle whose base name is
\* the target's, 0 standing for None.
find_map(mods, list) ==
    LET hits == { i \in 1..Len(list) : GetModuleBaseNameW(mods, list[i]) = TargetName }
    IN  IF hits = { } THEN INVALID_HMODULE
        ELSE list[CHOOSE i \in hits : \A j \in hits : i <= j]

\* from_pid with the handle OpenProcess gave (0: none) and the answer enum_ok
\* of the enumeration: the set of results.
from_pid(mods, handle, enum_ok) ==
    IF ~ enum_ok
      THEN { [tag |-> "Err", err |-> EnumModuleError(ERROR_INVALID_HANDLE)] }
      ELSE { LET ga_addr == find_map(mods, list)
             IN  IF ga_addr # INVALID_HMODULE
                   THEN [tag |-> "Ok", val |-> [handle |-> handle, ga_addr |-> ga_addr]]
                   ELSE [tag |-> "Err", err |-> MissingGaError]
             : list \in SetLen(mods, EnumProcessModulesEx(mods)) }

ModuleNames == { TargetName, "gameassembly.dll", "UnityPlayer.dll" }

ModuleCounts == { 1, 2, MAX_MODULE_COUNT, MAX_MODULE_COUNT + 1, MAX_MODULE_COUNT + MaxExtraModules }

\* The module lists: a count, and the names of the modules at the ends of
\* the list and around the buffer's capacity (the others are the
\* executable's own name).
ModuleLists ==
    UNION { { [n |-> n, names |-> f]
              : f \in [ { 1, MAX_MODULE_COUNT, MAX_MODULE_COUNT + 1, n } \cap 1..n -> ModuleNames ] }
            : n \in ModuleCounts }

ConnInit ==
    /\ foreign = [phase |-> 0, count |-> 0, ms |-> 0, mraw |-> 0, fault |-> NoFault]
    /\ game = [handle |-> 0, ga_addr |-> 0]
    /\ result = NoResult
    /\ reads = << >>
    /\ modules \in ModuleLists
    /\ handles = { }
    /\ games = { }
    /\ connected = NoResult
    /\ nopens = 0

\* One call of Game::from_pid.  OpenProcess may fail (no handle is opened
\* and the enumeration fails on the null handle); with a handle the
\* enumeration may still fail.  No path of from_pid closes the handle.
FromPid ==
    /\ nopens < MaxOpens
    /\ nopens' = nopens + 1
    /\ \E opened \in BOOLEAN, enum_ok \in BOOLEAN :
         /\ (~ opened => ~ enum_ok)
         /\ LET handle == IF opened THEN nopens + 1 ELSE 0
                held == IF opened THEN handles \cup { handle } ELSE handles
            IN  \E r \in from_pid(modules, handle, enum_ok) :
                  /\ connected' = r
                  /\ IF r.tag = "Ok"
                       THEN /\ games' = games \cup { r.val }
                            /\ handles' = held
                       ELSE /\ games' = games
                            /\ handles' = held
    /\ UNCHANGED modules
    /\ UNCHANGED pollVars

\* A Game is dropped: Game has no Drop, and its handle is a plain usize.
DropGame ==
    /\ \E g \in games : games' = games \ { g }
    /\ UNCHANGED << modules, handles, connected, nopens >>
    /\ UNCHANGED pollVars

ConnNext == FromPid \/ DropGame

ConnectSpec == ConnInit /\ [][ConnNext]_vars

(***************************************************************************)
(* Properties of Game::state, under Spec.                                  *)
(***************************************************************************)
Polled == result.tag # "none"

\* Read e of the log was answered in full.
Full(e) == e.ret # 0 /\ e.count = e.len

FullReads == \A i \in 1..Len(reads) : Full(reads[i])

\* Read e of the log failed as its caller sees it: the return value is 0,
\* or (player record, string payload) the byte count is not the one asked.
Failed(e) == e.ret = 0 \/ (e.label \in {"raw player", "string"} /\ e.count # e.len)

HasPlayers == result.tag = "Ok" /\ result.val.variant \in {"Lobby", "InGame"}

\* The snapshot of an intact image.
Snapshot(s) ==
    LET players == [i \in 1..s.count |-> PlayerValue(i - 1)]
    IN  CASE s.phase = 0 -> Menu
          [] s.phase \in {1, 3} -> Lobby(players)
          [] s.phase = 2 ->
               InGame(IF s.ms = 0 THEN "Proceeding" ELSE MeetingStateNames[s.mraw + 1],
                      players, Tasks[2], Tasks[1])

\* C1: when every read of a poll succeeds and the phase at client-state+0x70
\* is one of the four InternalState values, the variant returned is the
\* phase's: NotJoined Menu, Joined and Ended Lobby{players} (the same shape),
\* Started InGame{meeting, players, tasks_completed, tasks_total}; on an
\* intact image the poll returns exactly the image's snapshot.
C1_PhaseSelectsVariant ==
    (Polled /\ foreign.phase \in 0..3) =>
        /\ (FullReads /\ result.tag = "Ok") =>
             /\ result.val.variant =
                  << "Menu", "Lobby", "InGame", "Lobby" >>[foreign.phase + 1]
             /\ DOMAIN result.val =
                  CASE foreign.phase = 0 -> { "variant" }
                    [] foreign.phase \in {1, 3} -> { "variant", "players" }
                    [] foreign.phase = 2 -> { "variant", "meeting", "players",
                                              "tasks_completed", "tasks_total" }
        /\ (foreign.fault = NoFault /\ (foreign.ms # 0 => foreign.mraw \in 0..4)) =>
             result = [tag |-> "Ok", val |-> Snapshot(foreign)]

C1_Witness ==
    /\ foreign.phase = 3
    /\ foreign.count = MaxCount
    /\ result.tag = "Ok"
    /\ result.val.variant = "Lobby"
    /\ Len(result.val.players) = MaxCount

\* C2: a poll that read, in full, a phase discriminant outside 0..3 or a
\* meeting discriminant outside 0..4 returns an InvalidDiscriminant error.
C2_InvalidDiscriminantRejected ==
    (/\ Polled
     /\ FullReads
     /\ \/ /\ foreign.phase \notin 0..3
           /\ \E i \in 1..Len(reads) : reads[i].label = "internal state"
        \/ /\ foreign.mraw \notin 0..4
           /\ \E i \in 1..Len(reads) : reads[i].label = "meeting state")
    => (result.tag = "Err" /\ result.err.kind = "InvalidDiscriminant")

\* C3: a read that fails is the last read of its poll, and the poll returns
\* that read's error; a poll that returns players read the count and, the
\* count read in full, returns as many players as the foreign count, none of
\* them with a name that does not decode.
C3_FailureAborts ==
    Polled =>
      /\ \A i \in 1..Len(reads) :
           Failed(reads[i]) =>
             /\ i = Len(reads)
             /\ result = [tag |-> "Err",
                          err |-> ReadError(reads[i].lasterr, reads[i].count, reads[i].label)]
      /\ HasPlayers =>
           /\ \E i \in 1..Len(reads) :
                /\ reads[i].label = "player list size"
                /\ Full(reads[i]) => Len(result.val.players) = foreign.count
           /\ foreign.fault[1] # "surrogate"

C3_Witness ==
    /\ result.tag = "Err"
    /\ foreign.phase = 1
    /\ \E i \in 1..Len(reads) : reads[i].label = "string" /\ Full(reads[i])
    /\ Failed(reads[Len(reads)])
    /\ reads[Len(reads)].label = "raw player"

\* C4: a Started poll whose reads are full returns the meeting Proceeding,
\* without a read at +0x84, when the meeting-screen instance is 0, and the
\* meeting named by the discriminant at instance+0x84 (0..4) when it is not;
\* on an intact image with a null instance the poll does not fail.
C4_MeetingPhase ==
    /\ (result.tag = "Ok" /\ result.val.variant = "InGame" /\ FullReads
        /\ foreign.phase = 2) =>
          /\ foreign.ms = 0 =>
               /\ result.val.meeting = "Proceeding"
               /\ \A i \in 1..Len(reads) : reads[i].label # "meeting state"
          /\ (foreign.ms # 0 /\ foreign.mraw \in 0..4) =>
               /\ result.val.meeting = MeetingStateNames[foreign.mraw + 1]
               /\ reads[Len(reads)].label = "meeting state"
               /\ reads[Len(reads)].addr = foreign.ms + MEETING_STATE_OFFSET
    /\ (Polled /\ foreign.phase = 2 /\ foreign.ms = 0 /\ foreign.fault = NoFault) =>
          result.tag = "Ok"

C4_Witness ==
    /\ foreign.phase = 2
    /\ foreign.ms = 0
    /\ result.tag = "Ok"
    /\ result.val.variant = "InGame"
    /\ result.val.meeting = "Proceeding"
    /\ Len(result.val.players) = MaxCount

\* The bound on a plausible player-list count: below the largest count of
\* the images, so that an image exceeds it.
SanityBound == MaxCount - 1

\* The reads of element pointers of the player array.
ElementReads ==
    { i \in 1..Len(reads) : /\ reads[i].label = "pointer"
                            /\ reads[i].addr >= ARRAY_ADDR + PLAYER_ARRAY_OFFSET
                            /\ reads[i].addr < ARRAY_ADDR + OBJECT_STRIDE }

\* C5: a poll (take one whose reads are all full) issues at most SanityBound
\* element-pointer reads, and one that read a count above the bound fails
\* with ListCountInvalid before any of them.
C5_CountBounded ==
    (Polled /\ FullReads) =>
      /\ Cardinality(ElementReads) <= SanityBound
      /\ (/\ foreign.count > SanityBound
          /\ \E i \in 1..Len(reads) : reads[i].label = "player list size" /\ Full(reads[i]))
         => /\ result.tag = "Err"
            /\ result.err.kind = "ListCountInvalid"
            /\ ElementReads = { }

\* C6: a read that copied fewer bytes than asked is the last read of its
\* poll, and the poll returns a read error with that byte count.
C6_ShortReadsSurfaced ==
    Polled =>
      \A i \in 1..Len(reads) :
        reads[i].count < reads[i].len =>
          /\ i = Len(reads)
          /\ result.tag = "Err"
          /\ result.err.kind = "ReadError"
          /\ result.err.count = reads[i].count

\* The three reads of the client-state resolution, which opens every poll:
\* each at the value of the one before plus the class's offset, a failing
\* one being the last read of the poll, its error returned.
C8_Chain ==
    Polled =>
      /\ Len(reads) >= 1
      /\ reads[1].addr = game.ga_addr + CLASS_OFFSET("ClientState")
      /\ (Len(reads) >= 2 /\ Full(reads[1])) =>
            reads[2].addr = ClassAddr("ClientState") + STATICS_OFFSET
      /\ (Len(reads) >= 3 /\ Full(reads[1]) /\ Full(reads[2])) =>
            reads[3].addr = StaticsAddr("ClientState") + INSTANCE_OFFSET
      /\ (Len(reads) >= 4 /\ Full(reads[1]) /\ Full(reads[2]) /\ Full(reads[3])) =>
            reads[4].addr = CS_ADDR + INTERNAL_STATE_OFFSET
      /\ \A k \in 1..3 :
           (k <= Len(reads) /\ reads[k].ret = 0) =>
             /\ Len(reads) = k
             /\ result = [tag |-> "Err",
                          err |-> ReadError(reads[k].lasterr, reads[k].count, "pointer")]

\* C8: the resolution reads are chained as above, and the error of a failing
\* hop carries a label that none of the hops read (in full) before it carries.
C8_HopLabelled ==
    /\ C8_Chain
    /\ \A k \in 2..3 :
         (/\ Polled
          /\ Len(reads) = k
          /\ reads[k].ret = 0
          /\ \A j \in 1..(k - 1) : Full(reads[j])) =>
           \A j \in 1..(k - 1) : reads[j].label # result.err.label

\* C9: a poll that follows a poll, the foreign memory unchanged between
\* them, returns what the first returned.
C9_Deterministic ==
    [][(Polled /\ foreign' = foreign /\ result'.tag # "none") => result' = result]_vars

(***************************************************************************)
(* Properties of Game::from_pid, under ConnectSpec.                        *)
(***************************************************************************)
\* C7: the open handles are those of the live Games.
C7_HandlesReleased == handles = { g.handle : g \in games }

TargetModules == { i \in 1..modules.n : NameOfModule(modules, i) = TargetName }

\* C10: from_pid returns the Game of the first module of the whole list
\* whose base name is the target's, and MissingGaError only when the list
\* has no such module.
C10_FullEnumeration ==
    /\ (connected.tag = "Ok") =>
          /\ TargetModules # { }
          /\ connected.val.ga_addr =
               HModule(CHOOSE i \in TargetModules : \A j \in TargetModules : i <= j)
    /\ (connected.tag = "Err" /\ connected.err = MissingGaError) => TargetModules = { }

====
